---- MODULE Spec2Model ----
(***************************************************************************)
(* AutoInsight AI (src/main.py): one "Generate" run of the Streamlit page. *)
(*                                                                         *)
(* Text is modelled at character level: a Python str is a sequence of      *)
(* one-character strings.  The module is ASCII, so a character outside     *)
(* ASCII or without a TLA+ escape is written as the atom "uXXXX" of its    *)
(* code point (the bullet U+2022 is "u2022", the vertical tab "u000b");    *)
(* such an atom stands for one character.                                  *)
(* A Python value is a record [kind, val]: kind "str" (val = characters),  *)
(* kind "list" (val = sequence of strs' characters), kind "none" (None),   *)
(* kind "int" (a number).                                                  *)
(***************************************************************************)
EXTENDS Integers, Sequences, FiniteSets

VARIABLES
    pc,           \* position of the run in the script
    dataset,      \* df: the uploaded table's columns, left to right
    call,         \* which llama() invocation is running: 1 (line 102), 2 (line 170)
    attempts,     \* requests.post calls made by the current llama() invocation
    failures,     \* how many of them ended in the except branch
    result,       \* value returned by the last llama() invocation
    raw,          \* raw (line 102)
    lines,        \* raw.split("\n") (line 113)
    idx,          \* index of the next line the for loop of line 113 reads
    current,      \* current (line 112)
    sections,     \* sections (line 104)
    revenue_col,  \* revenue_col (line 148)
    charts_html,  \* charts_html (line 147)
    insights,     \* insights (line 170)
    tmp,          \* whether the file named pdf_path exists on disk
    error,        \* the exception that ended the run, "" if none
    normOrig,     \* Text Normalizer study: the text drawn
    normPrev,     \*   the value before the last application of clean
    normText,     \*   the value after it
    normApplied   \*   number of applications so far

vars == <<pc, dataset, call, attempts, failures, result, raw, lines, idx, current,
          sections, revenue_col, charts_html, insights, tmp, error,
          normOrig, normPrev, normText, normApplied>>

runVars == <<pc, dataset, call, attempts, failures, result, raw, lines, idx, current,
             sections, revenue_col, charts_html, insights, tmp, error>>

normVars == <<normOrig, normPrev, normText, normApplied>>

----------------------------------------------------------------------------
(* Bounds of the model.                                                    *)

\* longest response to the understanding prompt, in lines, in a full run
MaxRunLines == 2
\* longest response, in lines, when the Section Parser is studied alone
MaxLines == 4
\* most bullet lines under one list label of a well-formed response
MaxBullets == 2
\* longest text, in characters, given to the Text Normalizer
MaxChars == 5

(* Constants of the program.                                               *)

\* range(3), line 37
MaxAttempts == 3
\* len(i.strip()) > 20, line 170
MinInsightLen == 20

----------------------------------------------------------------------------
(* Python values.                                                          *)

Str(s) == [kind |-> "str", val |-> s]
List(l) == [kind |-> "list", val |-> l]
NoneV == [kind |-> "none", val |-> <<>>]
Num == [kind |-> "int", val |-> <<>>]

\* bool(v) as "if current:" takes it
Truthy(v) == v.kind # "none" /\ (v.kind \in {"str", "list"} => v.val # <<>>)

(* Characters.                                                             *)

\* what str.strip() removes: the 29 characters c with c.isspace()
Whitespace ==
    { "\t", "\n", "u000b", "\f", "\r", "u001c", "u001d", "u001e", "u001f", " ",
      "u0085", "u00a0", "u1680", "u2000", "u2001", "u2002", "u2003", "u2004", "u2005",
      "u2006", "u2007", "u2008", "u2009", "u200a", "u2028", "u2029", "u202f", "u205f",
      "u3000" }
\* the tuple ("-", "u2022", "*") of line 119
BulletMarkers == {"-", "u2022", "*"}
\* the characters of "-u2022* " (line 120)
EntryStripChars == {"-", "u2022", "*", " "}
\* the characters of "-u2022 " (line 170)
InsightStripChars == {"-", "u2022", " "}

L_OVERVIEW == <<"O","V","E","R","V","I","E","W">>
L_DOMAIN == <<"D","O","M","A","I","N">>
L_ENABLES == <<"W","H","A","T"," ","T","H","I","S"," ","D","A","T","A"," ",
               "E","N","A","B","L","E","S">>
L_LIMITATIONS == <<"L","I","M","I","T","A","T","I","O","N","S">>
L_ACTIONS == <<"P","R","O","F","I","T"," ","I","M","P","R","O","V","E","M","E","N","T"," ",
               "A","C","T","I","O","N","S">>

TextLabels == {L_OVERVIEW, L_DOMAIN}
ListLabels == {L_ENABLES, L_LIMITATIONS, L_ACTIONS}
Labels == TextLabels \cup ListLabels

\* the dict literal of lines 104-110
DefaultSections ==
    [l \in Labels |-> IF l \in TextLabels THEN Str(<<>>) ELSE List(<<>>)]

\* value of the name sections before line 104 binds it
NoSections == <<>>

----------------------------------------------------------------------------
(* str methods, computed as CPython computes them.                         *)

RECURSIVE LStrip(_, _)
LStrip(s, chars) ==
    IF s = <<>> \/ Head(s) \notin chars THEN s ELSE LStrip(Tail(s), chars)

RECURSIVE RStrip(_, _)
RStrip(s, chars) ==
    IF s = <<>> \/ s[Len(s)] \notin chars THEN s
    ELSE RStrip(SubSeq(s, 1, Len(s) - 1), chars)

\* s.strip(chars); s.strip() is StripChars(s, Whitespace)
StripChars(s, chars) == RStrip(LStrip(s, chars), chars)

\* s.endswith(":")
EndsWithColon(s) == s # <<>> /\ s[Len(s)] = ":"

\* s[:-1]
DropLast(s) == IF s = <<>> THEN <<>> ELSE SubSeq(s, 1, Len(s) - 1)

\* s.startswith(("-", "u2022", "*"))
StartsWithBullet(s) == s # <<>> /\ s[1] \in BulletMarkers

\* s.split("\n")
RECURSIVE Split(_)
Split(s) ==
    IF \A i \in 1..Len(s) : s[i] # "\n" THEN <<s>>
    ELSE LET i == CHOOSE k \in 1..Len(s) :
                      s[k] = "\n" /\ \A j \in 1..(k - 1) : s[j] # "\n"
         IN  <<SubSeq(s, 1, i - 1)>> \o Split(SubSeq(s, i + 1, Len(s)))

\* "\n".join(ls)
RECURSIVE JoinLines(_)
JoinLines(ls) ==
    IF ls = <<>> THEN <<>>
    ELSE IF Len(ls) = 1 THEN ls[1]
    ELSE ls[1] \o <<"\n">> \o JoinLines(Tail(ls))

----------------------------------------------------------------------------
(* clean (lines 54-55).                                                    *)

\* whether a match of \n{2,} starts at i, and the place of the leftmost match
PairAt(s, i) == i < Len(s) /\ s[i] = "\n" /\ s[i + 1] = "\n"
HasRun(s) == \E i \in 1..Len(s) : PairAt(s, i)
FirstRun(s) == CHOOSE i \in 1..Len(s) : PairAt(s, i) /\ \A j \in 1..(i - 1) : ~PairAt(s, j)

\* re.sub(r"\n{2}", "\n", s): every PAIR of line breaks becomes one
RECURSIVE CollapsePairs(_)
CollapsePairs(s) ==
    IF ~HasRun(s) THEN s
    ELSE LET i == FirstRun(s)
         IN  SubSeq(s, 1, i) \o CollapsePairs(SubSeq(s, i + 2, Len(s)))

clean_pairs(text) == StripChars(CollapsePairs(text), Whitespace)

\* re.sub(r"\n{2,}", "\n", s): the text up to the leftmost match is copied, the
\* match, which is greedy and takes the whole run of line breaks, becomes one
\* line break, and the scan goes on after the run
RECURSIVE Collapse(_)
Collapse(s) ==
    IF ~HasRun(s) THEN s
    ELSE LET i == FirstRun(s)
         IN  SubSeq(s, 1, i) \o Collapse(LStrip(SubSeq(s, i + 1, Len(s)), {"\n"}))

clean(text) == StripChars(Collapse(text), Whitespace)

----------------------------------------------------------------------------
(* The Section Parser: the body of the for loop of lines 113-124.          *)

\* line.strip("-u2022* ").strip(), the argument of append on line 120
EntryOf(line) == StripChars(StripChars(line, EntryStripChars), Whitespace)

Step(cur, secs, exc) == [current |-> cur, sections |-> secs, exc |-> exc]

\* lines before the first header are filed under OVERVIEW
ParseLine_orphans(cur, secs, rawline) ==
    LET line == StripChars(rawline, Whitespace)
        c == IF Truthy(cur) THEN cur ELSE Str(L_OVERVIEW)
    IN  IF EndsWithColon(line) /\ DropLast(line) \in DOMAIN secs
        THEN Step(Str(DropLast(line)), secs, "")
        ELSE IF StartsWithBullet(line)
             THEN IF secs[c.val].kind = "list"
                  THEN Step(cur, [secs EXCEPT ![c.val] = List(Append(@.val, EntryOf(line)))], "")
                  ELSE Step(cur, secs, "AttributeError")
             ELSE IF secs[c.val].kind = "list"
                  THEN Step(cur, secs, "")
                  ELSE Step(cur, [secs EXCEPT ![c.val] = Str(@.val \o <<" ">> \o line)], "")

\* a recognised header rebinds its section to a fresh list
ParseLine_rebind(cur, secs, rawline) ==
    LET line == StripChars(rawline, Whitespace)
    IN  IF EndsWithColon(line) /\ DropLast(line) \in DOMAIN secs
        THEN Step(Str(DropLast(line)), [secs EXCEPT ![DropLast(line)] = List(<<>>)], "")
        ELSE IF ~Truthy(cur)
        THEN Step(cur, secs, "")
        ELSE IF StartsWithBullet(line)
             THEN IF secs[cur.val].kind = "list"
                  THEN Step(cur, [secs EXCEPT ![cur.val] = List(Append(@.val, EntryOf(line)))], "")
                  ELSE Step(cur, secs, "AttributeError")
             ELSE IF secs[cur.val].kind = "list"
                  THEN Step(cur, secs, "")
                  ELSE Step(cur, [secs EXCEPT ![cur.val] = Str(@.val \o <<" ">> \o line)], "")

\* every colon-terminated line is consumed as a header, known label or not
ParseLine_skipcolon(cur, secs, rawline) ==
    LET line == StripChars(rawline, Whitespace)
    IN  IF EndsWithColon(line)
        THEN Step(IF DropLast(line) \in DOMAIN secs THEN Str(DropLast(line)) ELSE cur, secs, "")
        ELSE IF ~Truthy(cur)
        THEN Step(cur, secs, "")
        ELSE IF StartsWithBullet(line)
             THEN IF secs[cur.val].kind = "list"
                  THEN Step(cur, [secs EXCEPT ![cur.val] = List(Append(@.val, EntryOf(line)))], "")
                  ELSE Step(cur, secs, "AttributeError")
             ELSE IF secs[cur.val].kind = "list"
                  THEN Step(cur, secs, "")
                  ELSE Step(cur, [secs EXCEPT ![cur.val] = Str(@.val \o <<" ">> \o line)], "")

\* a recognised header starts its section afresh
ParseLine_reset(cur, secs, rawline) ==
    LET line == StripChars(rawline, Whitespace)
    IN  IF EndsWithColon(line) /\ DropLast(line) \in DOMAIN secs
        THEN Step(Str(DropLast(line)),
                  [secs EXCEPT ![DropLast(line)] = [kind |-> @.kind, val |-> <<>>]], "")
        ELSE IF ~Truthy(cur)
        THEN Step(cur, secs, "")
        ELSE IF StartsWithBullet(line)
             THEN IF secs[cur.val].kind = "list"
                  THEN Step(cur, [secs EXCEPT ![cur.val] = List(Append(@.val, EntryOf(line)))], "")
                  ELSE Step(cur, secs, "AttributeError")
             ELSE IF secs[cur.val].kind = "list"
                  THEN Step(cur, secs, "")
                  ELSE Step(cur, [secs EXCEPT ![cur.val] = Str(@.val \o <<" ">> \o line)], "")

\* one iteration of the loop on the line rawline: the new current and sections,
\* and the exception the iteration raises ("" if none)
ParseLine(cur, secs, rawline) ==
    LET line == StripChars(rawline, Whitespace)                          \* 114
    IN  IF EndsWithColon(line) /\ DropLast(line) \in DOMAIN secs         \* 115
        THEN Step(Str(DropLast(line)), secs, "")                         \* 116-117
        ELSE IF ~Truthy(cur)                                             \* 118
        THEN Step(cur, secs, "")
        ELSE IF StartsWithBullet(line)                                   \* 119
             THEN IF secs[cur.val].kind = "list"                         \* 120
                  THEN Step(cur, [secs EXCEPT ![cur.val] = List(Append(@.val, EntryOf(line)))], "")
                  \* a str has no attribute append
                  ELSE Step(cur, secs, "AttributeError")
             ELSE IF secs[cur.val].kind = "list"                         \* 122-123
                  THEN Step(cur, secs, "")
                  ELSE Step(cur, [secs EXCEPT ![cur.val] = Str(@.val \o <<" ">> \o line)], "")  \* 124

----------------------------------------------------------------------------
(* Revenue column and insights.                                            *)

Col(name, numeric) == [name |-> name, numeric |-> numeric]

\* df.columns
ColumnNames(df) == {df[i].name : i \in 1..Len(df)}

\* df.select_dtypes(include=np.number).columns
NumericColumns(df) == SelectSeq(df, LAMBDA c : c.numeric)

\* line 148: the column name, or the exception columns[-1] raises on an empty index
ResolveRevenueCol(df) ==
    IF "total_price" \in ColumnNames(df)
    THEN [col |-> "total_price", exc |-> ""]
    ELSE LET num == NumericColumns(df)
         IN  IF num = <<>>
             THEN [col |-> "", exc |-> "IndexError"]
             ELSE [col |-> num[Len(num)].name, exc |-> ""]

\* the list comprehension of line 170
RECURSIVE InsightsOf(_)
InsightsOf(ls) ==
    IF ls = <<>> THEN <<>>
    ELSE (IF Len(StripChars(Head(ls), Whitespace)) > MinInsightLen
          THEN <<StripChars(Head(ls), InsightStripChars)>>
          ELSE <<>>) \o InsightsOf(Tail(ls))

----------------------------------------------------------------------------
(* Inputs.                                                                 *)

Header(label) == label \o <<":">>

\* the lines responses are made of
LineSet ==
    { Header(L_OVERVIEW), Header(L_LIMITATIONS),
      <<"-", " ", "a">>, <<"u2022", " ", "b">>,
      <<"a">>, <<"x", ":">>, <<"-", " ", "x", ":">>, <<" ">>,
      <<"u000b">> \o Header(L_LIMITATIONS) \o <<"u00a0">> }

\* every text of at most n lines of LineSet
Texts(n) == {JoinLines(ls) : ls \in UNION {[1..k -> LineSet] : k \in 0..n}}

\* responses to the insight prompt: nothing, one long line, a short and a long line
InsightResponses ==
    { <<>>,
      <<"-", " ">> \o L_ACTIONS,
      <<"a", "\n", "u2022", " ">> \o L_ENABLES \o <<" ", "-">> }

\* uploaded tables, as their columns left to right
Datasets ==
    { <<Col("total_price", TRUE), Col("pizza_category", FALSE), Col("pizza_size", FALSE)>>,
      <<Col("quantity", TRUE), Col("pizza_size", FALSE), Col("unit_price", TRUE)>>,
      <<Col("total_price", FALSE)>>,
      <<Col("name", FALSE), Col("pizza_category", FALSE)>>,
      <<Col("name", FALSE)>> }

\* the HTTP exchange of one attempt (lines 39-49)
Reply(kind, v) == [kind |-> kind, val |-> v]

Replies(texts) ==
    { Reply("ConnectionError", NoneV),     \* requests.post raises
      Reply("InvalidJSON", NoneV),         \* r.json() raises
      Reply("JSONArray", NoneV),           \* r.json() is a list: no attribute get
      Reply("NoField", NoneV),             \* an object without "response"
      Reply("Field", NoneV),               \* {"response": null}
      Reply("Field", Num) }                \* {"response": 7}
    \cup {Reply("Field", Str(t)) : t \in texts}

RaisingReplies == {"ConnectionError", "InvalidJSON", "JSONArray"}

----------------------------------------------------------------------------
(* The run.                                                                *)

\* the statement after a return of llama
AfterLlama == IF call = 1 THEN "clean" ELSE "insights"

Crash(exc) == pc' = "crashed" /\ error' = exc

\* the button of line 75 is pressed; llama(understanding_prompt) is entered
Generate ==
    /\ pc = "idle"
    /\ pc' = "llama"
    /\ call' = 1
    /\ attempts' = 0
    /\ failures' = 0
    /\ UNCHANGED <<dataset, result, raw, lines, idx, current, sections, revenue_col,
                   charts_html, insights, tmp, error>>
    /\ UNCHANGED normVars

\* one iteration of the loop of llama (lines 37-51)
LlamaAttempt ==
    /\ pc = "llama"
    /\ attempts < MaxAttempts
    /\ \E reply \in Replies(IF call = 1 THEN Texts(MaxRunLines) ELSE InsightResponses) :
          /\ attempts' = attempts + 1
          /\ IF reply.kind \in RaisingReplies
             THEN /\ failures' = failures + 1                             \* 50-51
                  /\ UNCHANGED <<pc, result>>
             ELSE /\ result' = IF reply.kind = "NoField" THEN Str(<<>>)   \* 49
                                                         ELSE reply.val
                  /\ pc' = AfterLlama
                  /\ UNCHANGED failures
    /\ UNCHANGED <<dataset, call, raw, lines, idx, current, sections, revenue_col,
                   charts_html, insights, tmp, error>>
    /\ UNCHANGED normVars

\* the loop of llama is exhausted (line 52)
LlamaExhausted ==
    /\ pc = "llama"
    /\ attempts >= MaxAttempts
    /\ result' = Str(<<>>)
    /\ pc' = AfterLlama
    /\ UNCHANGED <<dataset, call, attempts, failures, raw, lines, idx, current, sections,
                   revenue_col, charts_html, insights, tmp, error>>
    /\ UNCHANGED normVars

\* lines 102-113: raw = clean(...), the sections dict, current, raw.split
Clean ==
    /\ pc = "clean"
    /\ IF result.kind # "str"
       THEN /\ Crash("TypeError")               \* re.sub on a value that is no str
            /\ UNCHANGED <<raw, lines, idx, current, sections>>
       ELSE /\ raw' = clean(result.val)
            /\ sections' = DefaultSections
            /\ current' = NoneV
            /\ lines' = Split(clean(result.val))
            /\ idx' = 1
            /\ pc' = "parse"
            /\ UNCHANGED error
    /\ UNCHANGED <<dataset, call, attempts, failures, result, revenue_col, charts_html,
                   insights, tmp>>
    /\ UNCHANGED normVars

\* one iteration of the for loop of lines 113-124
ParserStep ==
    /\ pc = "parse"
    /\ idx <= Len(lines)
    /\ LET r == ParseLine(current, sections, lines[idx])
       IN  IF r.exc # ""
           THEN /\ Crash(r.exc)
                /\ UNCHANGED <<idx, current, sections>>
           ELSE /\ current' = r.current
                /\ sections' = r.sections
                /\ idx' = idx + 1
                /\ UNCHANGED <<pc, error>>
    /\ UNCHANGED <<dataset, call, attempts, failures, result, raw, lines, revenue_col,
                   charts_html, insights, tmp>>
    /\ UNCHANGED normVars

\* the loop ends; the sections are displayed (lines 126-147)
ParserEnd ==
    /\ pc = "parse"
    /\ idx > Len(lines)
    /\ pc' = "revenue"
    /\ charts_html' = <<>>
    /\ UNCHANGED <<dataset, call, attempts, failures, result, raw, lines, idx, current,
                   sections, revenue_col, insights, tmp, error>>
    /\ UNCHANGED normVars

\* line 148
ResolveRevenue ==
    /\ pc = "revenue"
    /\ LET r == ResolveRevenueCol(dataset)
       IN  IF r.exc # ""
           THEN Crash(r.exc) /\ UNCHANGED revenue_col
           ELSE revenue_col' = r.col /\ pc' = "chart_category" /\ UNCHANGED error
    /\ UNCHANGED <<dataset, call, attempts, failures, result, raw, lines, idx, current,
                   sections, charts_html, insights, tmp>>
    /\ UNCHANGED normVars

\* lines 152-156
ChartCategory ==
    /\ pc = "chart_category"
    /\ charts_html' = IF "pizza_category" \in ColumnNames(dataset)
                      THEN Append(charts_html, "Revenue by Category")
                      ELSE charts_html
    /\ pc' = "chart_size"
    /\ UNCHANGED <<dataset, call, attempts, failures, result, raw, lines, idx, current,
                   sections, revenue_col, insights, tmp, error>>
    /\ UNCHANGED normVars

\* lines 158-161; then llama(insight_prompt) is entered (line 170)
ChartSize ==
    /\ pc = "chart_size"
    /\ charts_html' = IF "pizza_size" \in ColumnNames(dataset)
                      THEN Append(charts_html, "Revenue Share by Size")
                      ELSE charts_html
    /\ pc' = "llama"
    /\ call' = 2
    /\ attempts' = 0
    /\ failures' = 0
    /\ UNCHANGED <<dataset, result, raw, lines, idx, current, sections, revenue_col,
                   insights, tmp, error>>
    /\ UNCHANGED normVars

\* lines 170-208: the insights list from the value llama returned
BuildInsights ==
    /\ pc = "insights"
    /\ IF result.kind # "str"
       THEN Crash("AttributeError") /\ UNCHANGED insights      \* no attribute split
       ELSE insights' = InsightsOf(Split(result.val)) /\ pc' = "tempfile" /\ UNCHANGED error
    /\ UNCHANGED <<dataset, call, attempts, failures, result, raw, lines, idx, current,
                   sections, revenue_col, charts_html, tmp>>
    /\ UNCHANGED normVars

\* lines 210-211: NamedTemporaryFile(delete=False) leaves the file on disk
TempFile ==
    /\ pc = "tempfile"
    /\ tmp' = TRUE
    /\ pc' = "render"
    /\ UNCHANGED <<dataset, call, attempts, failures, result, raw, lines, idx, current,
                   sections, revenue_col, charts_html, insights, error>>
    /\ UNCHANGED normVars

\* lines 213-222: template.render reads the five sections
Render ==
    /\ pc = "render"
    /\ IF \A l \in Labels : l \in DOMAIN sections
       THEN pc' = "pdf" /\ UNCHANGED error
       ELSE Crash("KeyError")
    /\ UNCHANGED <<dataset, call, attempts, failures, result, raw, lines, idx, current,
                   sections, revenue_col, charts_html, insights, tmp>>
    /\ UNCHANGED normVars

\* line 224: the rendering engine writes the file or raises
Pdf ==
    /\ pc = "pdf"
    /\ \E ok \in BOOLEAN :
          IF ok THEN pc' = "download" /\ UNCHANGED error
                ELSE Crash("OSError")
    /\ UNCHANGED <<dataset, call, attempts, failures, result, raw, lines, idx, current,
                   sections, revenue_col, charts_html, insights, tmp>>
    /\ UNCHANGED normVars

\* lines 226-227
Download ==
    /\ pc = "download"
    /\ pc' = "remove"
    /\ UNCHANGED <<dataset, call, attempts, failures, result, raw, lines, idx, current,
                   sections, revenue_col, charts_html, insights, tmp, error>>
    /\ UNCHANGED normVars

\* line 229
Remove ==
    /\ pc = "remove"
    /\ tmp' = FALSE
    /\ pc' = "done"
    /\ UNCHANGED <<dataset, call, attempts, failures, result, raw, lines, idx, current,
                   sections, revenue_col, charts_html, insights, error>>
    /\ UNCHANGED normVars

\* the values no statement has bound yet
Unbound ==
    /\ raw = <<>>
    /\ lines = <<>>
    /\ idx = 1
    /\ current = NoneV
    /\ sections = NoSections
    /\ revenue_col = ""
    /\ charts_html = <<>>
    /\ insights = <<>>
    /\ tmp = FALSE
    /\ error = ""

NormIdle ==
    /\ normOrig = <<>>
    /\ normPrev = <<>>
    /\ normText = <<>>
    /\ normApplied = 0

\* a table is uploaded and shown (lines 57-73); the button is not pressed yet
Init ==
    /\ pc = "idle"
    /\ dataset \in Datasets
    /\ call = 0
    /\ attempts = 0
    /\ failures = 0
    /\ result = NoneV
    /\ Unbound
    /\ NormIdle

Next ==
    \/ Generate
    \/ LlamaAttempt
    \/ LlamaExhausted
    \/ Clean
    \/ ParserStep
    \/ ParserEnd
    \/ ResolveRevenue
    \/ ChartCategory
    \/ ChartSize
    \/ BuildInsights
    \/ TempFile
    \/ Render
    \/ Pdf
    \/ Download
    \/ Remove

Spec == Init /\ [][Next]_vars

----------------------------------------------------------------------------
(* The Section Parser alone: the run from the return of the first llama    *)
(* call to the end of the for loop, over every response of at most         *)
(* MaxLines lines.                                                         *)

SampleDataset == <<Col("total_price", TRUE), Col("pizza_category", FALSE)>>

\* llama(understanding_prompt) has returned the text t at its first attempt
Returned(t) ==
    /\ pc = "clean"
    /\ dataset = SampleDataset
    /\ call = 1
    /\ attempts = 1
    /\ failures = 0
    /\ result = Str(t)
    /\ Unbound
    /\ NormIdle

InitParse == \E t \in Texts(MaxLines) : Returned(t)

NextParse ==
    \/ Clean
    \/ ParserStep
    \/ ParserEnd

SpecParse == InitParse /\ [][NextParse]_vars

(* Well-formed responses: one block per fixed label, text lines under the  *)
(* two free-text labels, bullet lines under the three list labels.         *)

BulletSeqs(bullets) == UNION {[1..k -> bullets] : k \in 0..MaxBullets}

OverviewBodies == { << <<"a">> >>, << <<"a", " ", "b">>, <<"c">> >> }
DomainBodies == { << <<"d">> >> }
EnablesBullets == { <<"-", " ", "a">>, <<"*", " ", "u00a0", "b", "u2003">> }
LimitationsBullets == { <<"u2022", " ", "c">>, <<"\t", "-", " ", "d">> }
ActionsBullets == { <<"-", " ", "*", "e", "*", "u2003">>, <<"*", "f">> }

\* a block: its header, its lines and, as in the prompt's layout (lines 81-94),
\* an empty line after it when spaced
Block(label, body, spaced) ==
    <<Header(label)>> \o body \o (IF spaced THEN << <<>> >> ELSE <<>>)

WellFormedTexts ==
    { JoinLines(IF forward
                THEN Block(L_OVERVIEW, o, spaced) \o Block(L_DOMAIN, d, spaced)
                     \o Block(L_ENABLES, e, spaced) \o Block(L_LIMITATIONS, l, spaced)
                     \o Block(L_ACTIONS, a, spaced)
                ELSE Block(L_ACTIONS, a, spaced) \o Block(L_LIMITATIONS, l, spaced)
                     \o Block(L_ENABLES, e, spaced) \o Block(L_DOMAIN, d, spaced)
                     \o Block(L_OVERVIEW, o, spaced)) :
        <<forward, spaced, o, d, e, l, a>> \in
            BOOLEAN \X BOOLEAN \X OverviewBodies \X DomainBodies \X BulletSeqs(EnablesBullets)
            \X BulletSeqs(LimitationsBullets) \X BulletSeqs(ActionsBullets) }

InitWF == \E t \in WellFormedTexts : Returned(t)

SpecWF == InitWF /\ [][NextParse]_vars

(* The Text Normalizer alone: clean applied, and applied again, to every   *)
(* text of at most MaxChars characters.                                    *)

NormAlphabet == {"\n", " ", "u000b", "a"}

CharTexts(n) == UNION {[1..k -> NormAlphabet] : k \in 0..n}

InitNorm ==
    /\ pc = "idle"
    /\ dataset = SampleDataset
    /\ call = 0
    /\ attempts = 0
    /\ failures = 0
    /\ result = NoneV
    /\ Unbound
    /\ normOrig \in CharTexts(MaxChars)
    /\ normPrev = normOrig
    /\ normText = normOrig
    /\ normApplied = 0

Normalize ==
    /\ normApplied < 2
    /\ normPrev' = normText
    /\ normText' = clean(normText)
    /\ normApplied' = normApplied + 1
    /\ UNCHANGED normOrig
    /\ UNCHANGED runVars

NextNorm == Normalize

SpecNorm == InitNorm /\ [][NextNorm]_vars

----------------------------------------------------------------------------
(* Vocabulary of the properties.                                           *)

\* s with the characters of chars removed from both ends: the part of s from
\* its first to its last character outside chars
Trimmed(s, chars) ==
    LET keep == {i \in 1..Len(s) : s[i] \notin chars}
    IN  IF keep = {} THEN <<>>
        ELSE SubSeq(s, CHOOSE i \in keep : \A j \in keep : i <= j,
                       CHOOSE i \in keep : \A j \in keep : j <= i)

IsPrefix(s, t) == Len(s) <= Len(t) /\ SubSeq(t, 1, Len(s)) = s

\* the for loop is about to read lines[idx]
AtLine == pc = "parse" /\ idx <= Len(lines)

\* the line it is about to read, trimmed as line 114 trims it
ThisLine == Trimmed(lines[idx], Whitespace)

\* that line is a header of one of the five fixed labels
FixedHeader(line) ==
    line # <<>> /\ line[Len(line)] = ":" /\ SubSeq(line, 1, Len(line) - 1) \in Labels

\* the for loop has come to its end
Parsed == pc = "revenue"

\* the sections dict exists
SectionsBound ==
    \/ pc \in {"parse", "revenue", "chart_category", "chart_size", "insights", "tempfile",
               "render", "pdf", "download", "remove", "done"}
    \/ pc = "llama" /\ call = 2
    \/ pc = "crashed" /\ error # "TypeError"

\* line 148 has been passed
PastRevenue ==
    \/ pc \in {"chart_category", "chart_size", "insights", "tempfile", "render", "pdf",
               "download", "remove", "done"}
    \/ pc = "llama" /\ call = 2

\* index of the header of label in a well-formed response, and the lines of its block
HeaderAt(label) == CHOOSE i \in 1..Len(lines) : Trimmed(lines[i], Whitespace) = Header(label)
BlockSize(label) ==
    LET h == HeaderAt(label)
        later == {i \in (h + 1)..Len(lines) : FixedHeader(Trimmed(lines[i], Whitespace))}
    IN  IF later = {} THEN Len(lines) - h
        ELSE (CHOOSE i \in later : \A j \in later : i <= j) - h - 1
BlockLine(label, k) == lines[HeaderAt(label) + k]

----------------------------------------------------------------------------
(* Properties.                                                             *)

\* C1: the Section Parser never raises: no run is ended by an exception raised
\* inside the for loop; in particular a bullet line met under a free-text
\* section (OVERVIEW, DOMAIN) is discarded and the loop goes on to the next line
\* with the sections unchanged.
C1_ParserNeverRaises == ~(pc = "crashed" /\ call = 1 /\ error = "AttributeError")

\* C2: no run ends, normally or by an exception, with the temporary file still
\* on disk.
C2_TempFileRemoved == pc \in {"done", "crashed"} => tmp = FALSE

\* C3: revenue-column resolution does not crash when the table has no
\* "total_price" column and no numeric column (the run goes on with zero charts);
\* in every other case it yields "total_price" if present, else the right-most
\* numeric column.
C3_RevenueResolution ==
    LET numeric == {i \in 1..Len(dataset) : dataset[i].numeric}
        noColumn == "total_price" \notin ColumnNames(dataset) /\ numeric = {}
    IN  /\ ~(pc = "crashed" /\ error = "IndexError")
        /\ (PastRevenue /\ noColumn) => charts_html = <<>>
        /\ (PastRevenue /\ ~noColumn) =>
              revenue_col = IF "total_price" \in ColumnNames(dataset)
                            THEN "total_price"
                            ELSE dataset[CHOOSE i \in numeric : \A j \in numeric : j <= i].name

\* C4: when llama returns it has made between 1 and 3 attempts, it returned at
\* its first successful attempt or, all 3 having failed, returned the empty
\* text, and what it returns is a text, whatever the attempts' outcomes were.
C4_LlamaContract ==
    pc \in {"clean", "insights"} =>
        /\ attempts \in 1..MaxAttempts
        /\ \/ attempts = failures + 1
           \/ attempts = MaxAttempts /\ failures = MaxAttempts /\ result = Str(<<>>)
        /\ result.kind = "str"

\* C5: from a well-formed response the parser recovers, for each list label, as
\* many entries as the label's block has bullet lines, in their order, each the
\* bullet line without its marker and the whitespace around it.
C5_EntriesMarkerStripped ==
    Parsed =>
        \A l \in ListLabels :
            /\ sections[l].kind = "list"
            /\ Len(sections[l].val) = BlockSize(l)
            /\ \A k \in 1..BlockSize(l) :
                  sections[l].val[k] =
                      Trimmed(Tail(Trimmed(BlockLine(l, k), Whitespace)), Whitespace)

\* C6: as long as no header has been recognised the five sections hold their
\* defaults, whatever lines were read; so an empty response, and one of bullet
\* lines only, parse to the all-default sections.
C6_OrphanLinesDropped ==
    /\ (pc \in {"parse", "revenue"} /\ current = NoneV) =>
          \A l \in Labels :
              /\ sections[l].kind = (IF l \in TextLabels THEN "str" ELSE "list")
              /\ sections[l].val = <<>>
    /\ (Parsed /\ \A i \in 1..Len(lines) : lines[i] = <<>> \/ StartsWithBullet(lines[i])) =>
          /\ current = NoneV
          /\ \A l \in Labels : sections[l].val = <<>>

\* two or more bullet lines and no header were read to the end
C6_Witness ==
    /\ Parsed
    /\ Len(lines) >= 2
    /\ \A i \in 1..Len(lines) : StartsWithBullet(lines[i])
    /\ current = NoneV
    /\ \A l \in Labels : sections[l].val = <<>>

\* C7: clean is idempotent: applied to its own result it changes nothing.
C7_CleanIdempotent == normApplied = 2 => normText = normPrev

\* clean was applied twice to a text with a run of line breaks inside it
C7_Witness ==
    /\ normApplied = 2
    /\ \E i \in 1..(Len(normOrig) - 1) : normOrig[i] = "\n" /\ normOrig[i + 1] = "\n"
    /\ \E i \in 1..Len(normText) : normText[i] = "\n"
    /\ normText # normOrig

\* C8: from its creation on, and so when the report is assembled, the sections
\* dict has exactly the five fixed keys, a text under OVERVIEW and DOMAIN and a
\* list under the three list labels.
C8_SectionsShape ==
    SectionsBound =>
        /\ DOMAIN sections = Labels
        /\ \A l \in TextLabels : sections[l].kind = "str"
        /\ \A l \in ListLabels : sections[l].kind = "list"

\* the report is being assembled from sections the parser has filled
C8_Witness ==
    /\ pc = "render"
    /\ \E l \in ListLabels : sections[l].val # <<>>

\* C9 as stated: current changes only on a header of a fixed label; a
\* colon-terminated line that is no such header leaves current as it is and is
\* appended, after a space, to the text of a free-text section, ignored under a
\* list section, dropped when no section is active.  (A bullet-prefixed line
\* under a free-text section is the case of C1, where the loop raises; it is
\* left out here, so that what refutes the statement is not that exception.)
C9_UnknownHeaderIsContent ==
    [][(AtLine /\ ~(/\ Truthy(current) /\ current.val \in TextLabels
                    /\ StartsWithBullet(ThisLine))) =>
         /\ current' # current => FixedHeader(ThisLine)
         /\ (EndsWithColon(ThisLine) /\ ~FixedHeader(ThisLine)) =>
               /\ current' = current
               /\ pc' = "parse"
               /\ sections' =
                     IF Truthy(current) /\ current.val \in TextLabels
                     THEN [sections EXCEPT ![current.val] = Str(@.val \o <<" ">> \o ThisLine)]
                     ELSE sections]_vars

\* C9 as amended: ... a colon-terminated line that is no such header and does
\* not begin with a bullet marker leaves current as it is and is appended, after
\* a space, to the text of a free-text section, ignored under a list section,
\* dropped when no section is active; one that begins with a bullet marker is a
\* bullet line like any other: under a list section it becomes an entry.
C9_UnknownHeaderIsLine ==
    [][AtLine =>
         /\ current' # current => FixedHeader(ThisLine)
         /\ (EndsWithColon(ThisLine) /\ ~FixedHeader(ThisLine) /\ ~StartsWithBullet(ThisLine)) =>
               /\ current' = current
               /\ pc' = "parse"
               /\ sections' =
                     IF Truthy(current) /\ current.val \in TextLabels
                     THEN [sections EXCEPT ![current.val] = Str(@.val \o <<" ">> \o ThisLine)]
                     ELSE sections
         /\ (/\ EndsWithColon(ThisLine) /\ ~FixedHeader(ThisLine) /\ StartsWithBullet(ThisLine)
             /\ ~(Truthy(current) /\ current.val \in TextLabels)) =>
               /\ current' = current
               /\ pc' = "parse"
               /\ sections' =
                     IF Truthy(current)
                     THEN [sections EXCEPT ![current.val] =
                              List(Append(@.val, Trimmed(Trimmed(ThisLine, EntryStripChars),
                                                         Whitespace)))]
                     ELSE sections]_vars

\* the line "x:" has been read under OVERVIEW and is now part of its text, and
\* OVERVIEW is still the current section
C9_Witness ==
    /\ pc \in {"parse", "revenue"}
    /\ idx > 2
    /\ lines[idx - 2] = Header(L_OVERVIEW)
    /\ lines[idx - 1] = <<"x", ":">>
    /\ current = Str(L_OVERVIEW)
    /\ sections[L_OVERVIEW] = Str(<<" ", "x", ":">>)

\* C10: section content is append-only: a step of the loop leaves every section
\* as it was or longer at its end, and a header of a fixed label, first or
\* repeated, changes no section; so the blocks of a repeated label accumulate in
\* their order.
C10_AppendOnly ==
    [][AtLine =>
         /\ \A l \in Labels :
               /\ sections'[l].kind = sections[l].kind
               /\ IsPrefix(sections[l].val, sections'[l].val)
         /\ FixedHeader(ThisLine) => sections' = sections]_vars

\* LIMITATIONS was a header twice, a bullet line after each, and the section
\* holds the two entries in that order
C10_Witness ==
    /\ Parsed
    /\ \E i, j, k, m \in 1..Len(lines) :
          /\ i < j /\ j < k /\ k < m
          /\ lines[i] = Header(L_LIMITATIONS)
          /\ lines[k] = Header(L_LIMITATIONS)
          /\ lines[j] = <<"-", " ", "a">>
          /\ lines[m] = <<"u2022", " ", "b">>
          /\ sections[L_LIMITATIONS] = List(<< <<"a">>, <<"b">> >>)

====
